---- MODULE Spec2Model ----
(***************************************************************************)
(* A model of openft: the dataset builder (data.py, OpenFT.                *)
(* create_training_dataset), the token accounting (utils.py) and the      *)
(* fine-tune pipeline OpenFT.launch_fine_tune with its polling loop,        *)
(* against a remote service that owns the uploaded files and the job.      *)
(*                                                                         *)
(* Text is a sequence of characters over Alphabet; Python's None is the    *)
(* empty tuple where a value is optional (Some(v) is <<v>>).               *)
(***************************************************************************)
EXTENDS Integers, Sequences, FiniteSets, TLC

\* ------------------------------------------------------------------ bounds
MaxFileLen == 4
MaxPolls == 2
MaxResultFiles == 2
MaxRecords == 2

\* ------------------------------------------------------------------ text
NL == "\n"
Alphabet == {"x", NL}

SeqsUpTo(S, n) == UNION {[1..k -> S] : k \in 0..n}

None == <<>>
Some(v) == <<v>>

\* A file of the training directory: absent, or present with its text.
NoFile == [exists |-> FALSE, data |-> <<>>]
File(text) == [exists |-> TRUE, data |-> text]

\* The values a call produces: a returned value or a raised exception.
Ok(v) == [raised |-> FALSE, exc |-> "", msg |-> <<>>, value |-> v]
Raise(e, m) == [raised |-> TRUE, exc |-> e, msg |-> m, value |-> <<>>]

\* s has sep at position i.
StartsWithAt(s, sep, i) ==
    /\ i + Len(sep) - 1 <= Len(s)
    /\ \A j \in 1..Len(sep) : s[i + j - 1] = sep[j]

\* Python's str.split(sep) for a non-empty sep: scan left to right, cut at
\* each non-overlapping occurrence; the result has at least one element.
RECURSIVE SplitFrom(_, _, _, _)
SplitFrom(s, sep, i, cur) ==
    IF i > Len(s) THEN <<cur>>
    ELSE IF StartsWithAt(s, sep, i)
         THEN <<cur>> \o SplitFrom(s, sep, i + Len(sep), <<>>)
         ELSE SplitFrom(s, sep, i + 1, Append(cur, s[i]))

PySplit(s, sep) == SplitFrom(s, sep, 1, <<>>)

\* data.load_from_file: split is None (<<>>) or a string; "if split:" is
\* false for None and for the empty string alike, and both are <<>> here.
load_from_fileAlwaysSplit(file, split) ==
    IF ~file.exists THEN Raise("FileNotFoundError", <<>>)
    ELSE Ok(PySplit(file.data, IF split = <<>> THEN <<NL, NL>> ELSE split))

load_from_file(file, split) ==
    IF ~file.exists THEN Raise("FileNotFoundError", <<>>)
    ELSE IF split # <<>> THEN Ok(PySplit(file.data, split))
    ELSE Ok(<<file.data>>)

\* data.create_single_ft_message
create_single_ft_messageSwapped(system_prompt, question, answer) ==
    [messages |-> << [role |-> "system", content |-> system_prompt],
                     [role |-> "user", content |-> answer],
                     [role |-> "assistant", content |-> question] >>]

create_single_ft_message(system_prompt, question, answer) ==
    [messages |-> << [role |-> "system", content |-> system_prompt],
                     [role |-> "user", content |-> question],
                     [role |-> "assistant", content |-> answer] >>]

Min(a, b) == IF a <= b THEN a ELSE b

\* The loop "for q, a in zip(questions, answers)" of create_training_dataset:
\* zip stops at the shorter list.
ZipDataset(sys_prompt, questions, answers) ==
    [i \in 1..Min(Len(questions), Len(answers)) |->
        create_single_ft_message(sys_prompt, questions[i], answers[i])]

\* The condition of "assert len(questions) == len(answers)".
CountsAgreeAlways(questions, answers) == TRUE

CountsAgree(questions, answers) == Len(questions) = Len(answers)

QPath(validation) == IF validation THEN "val_questions" ELSE "questions"
APath(validation) == IF validation THEN "val_answers" ELSE "answers"

\* OpenFT.create_training_dataset over the files fs of training_dir.
create_training_dataset(data_split, fs, validation) ==
    LET sys_prompts == load_from_file(fs["system_prompt"], None)
        questions == load_from_file(fs[QPath(validation)], data_split)
        answers == load_from_file(fs[APath(validation)], data_split)
    IN  IF sys_prompts.raised THEN sys_prompts
        ELSE IF questions.raised THEN questions
        ELSE IF answers.raised THEN answers
        ELSE IF Len(sys_prompts.value) # 1
             THEN Raise("AssertionError",
                        <<"Found", Len(sys_prompts.value), "number of system prompts">>)
        ELSE IF ~CountsAgree(questions.value, answers.value)
             THEN Raise("AssertionError",
                        <<"Found a different number of questions",
                          Len(questions.value), "to answers", Len(answers.value)>>)
        ELSE Ok(ZipDataset(sys_prompts.value[1], questions.value, answers.value))

\* ------------------------------------------------------------------ utils.py
DefaultTokensPerMsg == 3
ReplyPriming == 3
DefaultPollWait == 30
DefaultMaxTokenSize == 4096
DefaultTokenCost == 8

\* encoding.encode(value): the tokenizer is an external collaborator; a text
\* of n characters is n tokens and a role name is one token.
EncodeLen(key, value) == IF key = "role" THEN 1 ELSE Len(value)

\* The inner loop "for key, value in message.items()": every value of the
\* message is encoded, the role as well as the content.
MessageValueTokens(message) ==
    EncodeLen("role", message.role) + EncodeLen("content", message.content)

RECURSIVE SumMessages(_, _, _)
SumMessages(messages, tokens_per_msg, i) ==
    IF i > Len(messages) THEN 0
    ELSE tokens_per_msg + MessageValueTokens(messages[i])
         + SumMessages(messages, tokens_per_msg, i + 1)

\* utils._tokens_for_messages
tokens_for_messagesNoPriming(messages, tokens_per_msg) ==
    SumMessages(messages, tokens_per_msg, 1)

tokens_for_messages(messages, tokens_per_msg) ==
    SumMessages(messages, tokens_per_msg, 1) + ReplyPriming

RECURSIVE SumExamples(_, _, _)
SumExamples(dataset, tokens_per_msg, i) ==
    IF i > Len(dataset) THEN 0
    ELSE tokens_for_messages(dataset[i].messages, tokens_per_msg)
         + SumExamples(dataset, tokens_per_msg, i + 1)

\* utils.calc_total_tokens
calc_total_tokens(dataset, tokens_per_msg) == SumExamples(dataset, tokens_per_msg, 1)

\* utils.calc_cost_of_training, in millionths of a dollar, the price given in
\* thousandths of a dollar per 1000 tokens: (total / 1000) * epochs * price.
calc_cost_of_trainingOneEpoch(dataset, num_epochs, cost_per_1k) ==
    calc_total_tokens(dataset, DefaultTokensPerMsg) * cost_per_1k

calc_cost_of_training(dataset, num_epochs, cost_per_1k) ==
    calc_total_tokens(dataset, DefaultTokensPerMsg) * num_epochs * cost_per_1k

\* The loop of check_all_examples_are_bounded from example i (1-based here,
\* reported 0-based as enumerate does) with the accumulators of the code.
RECURSIVE BoundedFrom(_, _, _, _)
BoundedFrom(dataset, bound, i, acc) ==
    IF i > Len(dataset) THEN acc
    ELSE LET num_tokens == tokens_for_messages(dataset[i].messages, DefaultTokensPerMsg)
         IN  BoundedFrom(dataset, bound, i + 1,
                [all_good |-> acc.all_good /\ ~(num_tokens > bound),
                 max_tokens |-> IF num_tokens > acc.max_tokens
                                THEN num_tokens ELSE acc.max_tokens,
                 reported |-> IF num_tokens > bound
                              THEN Append(acc.reported, i - 1) ELSE acc.reported])

\* utils.check_all_examples_are_bounded: (all_good, max_tokens) and the
\* indexes it prints.
RECURSIVE BoundedFromBreak(_, _, _, _)
BoundedFromBreak(dataset, bound, i, acc) ==
    IF i > Len(dataset) THEN acc
    ELSE LET num_tokens == tokens_for_messages(dataset[i].messages, DefaultTokensPerMsg)
         IN  IF num_tokens > bound
             THEN [all_good |-> FALSE, max_tokens |-> acc.max_tokens,
                   reported |-> Append(acc.reported, i - 1)]
             ELSE BoundedFromBreak(dataset, bound, i + 1,
                    [acc EXCEPT !.max_tokens = IF num_tokens > acc.max_tokens
                                               THEN num_tokens ELSE acc.max_tokens])

check_all_examples_are_boundedBreak(dataset, bound) ==
    BoundedFromBreak(dataset, bound, 1,
                     [all_good |-> TRUE, max_tokens |-> 0, reported |-> <<>>])

check_all_examples_are_bounded(dataset, bound) ==
    BoundedFrom(dataset, bound, 1,
                [all_good |-> TRUE, max_tokens |-> 0, reported |-> <<>>])

\* ------------------------------------------------------------------ serialization
\* json.dumps on one character of a string: the newline, the quote and the
\* backslash are escaped, any other character of the alphabet stands for itself.
EscapeCharNoBackslash(c) ==
    CASE c = NL -> <<"\\", "n">>
      [] c = "\"" -> <<"\\", "\"">>
      [] OTHER -> <<c>>

EscapeChar(c) ==
    CASE c = NL -> <<"\\", "n">>
      [] c = "\"" -> <<"\\", "\"">>
      [] c = "\\" -> <<"\\", "\\">>
      [] OTHER -> <<c>>

RECURSIVE JsonEscape(_)
JsonEscape(text) ==
    IF text = <<>> THEN <<>>
    ELSE EscapeChar(Head(text)) \o JsonEscape(Tail(text))

\* A JSON string: the escaped characters between two quotes.
JsonString(text) == <<"\"">> \o JsonEscape(text) \o <<"\"">>

\* A key or a role name is one symbol of the text.
JsonName(name) == <<"\"", name, "\"">>

JsonMessage(message) ==
    <<"{">> \o JsonName("role") \o <<":">> \o JsonName(message.role) \o <<",">>
        \o JsonName("content") \o <<":">> \o JsonString(message.content) \o <<"}">>

RECURSIVE JsonMessages(_, _)
JsonMessages(messages, i) ==
    IF i > Len(messages) THEN <<>>
    ELSE (IF i > 1 THEN <<",">> ELSE <<>>) \o JsonMessage(messages[i])
         \o JsonMessages(messages, i + 1)

\* json.dumps(example): {"messages": [{"role": r, "content": c}, ...]} on one
\* line, the keys in the order the dict holds them.
JsonDumps(example) ==
    <<"{">> \o JsonName("messages") \o <<":", "[">>
        \o JsonMessages(example.messages, 1) \o <<"]", "}">>

\* The loop of write_dataset_to_jsonl from example i.
RECURSIVE WriteFrom(_, _)
WriteFrom(dataset, i) ==
    IF i > Len(dataset) THEN <<>>
    ELSE JsonDumps(dataset[i]) \o <<NL>> \o WriteFrom(dataset, i + 1)

\* data.write_dataset_to_jsonl: the text of the file it writes.
write_dataset_to_jsonl(dataset) == WriteFrom(dataset, 1)

\* data.write_dataset_to_buffer: each record serialized on its own,
\* newline-terminated line, in memory.
RECURSIVE write_dataset_to_buffer(_)
write_dataset_to_buffer(dataset) ==
    IF dataset = <<>> THEN <<>>
    ELSE write_dataset_to_buffer(SubSeq(dataset, 1, Len(dataset) - 1))
         \o JsonDumps(dataset[Len(dataset)]) \o <<NL>>

\* ------------------------------------------------------------------ the operator's answer
LowerChar(c) ==
    CASE c = "Y" -> "y"
      [] c = "E" -> "e"
      [] c = "S" -> "s"
      [] c = "N" -> "n"
      [] OTHER -> c

\* str.lower()
Lower(text) == [i \in 1..Len(text) |-> LowerChar(text[i])]

\* The answers input() is given.
Answers == { <<"y">>, <<"Y","E","S">>, <<"y","e","s"," ">>, <<"n">>, <<>> }

\* The condition of line 131: user_input.lower() not in ["y", "yes"].
DeclinedNever(user_input) == FALSE

Declined(user_input) == Lower(user_input) \notin { <<"y">>, <<"y","e","s">> }

\* ------------------------------------------------------------------ the remote service
NonTerminal == {"validating_files", "queued", "running"}

\* The statuses wait_for_processing can end in.
FileStatuses == {"processed", "error"}

FileIds == <<"file-1", "file-2">>
JobId == "ftjob-1"
ResultIds == {"file-r1", "file-r2"}
FetchIds == ResultIds \cup {"file-r3"}
RemoteFilename(id) ==
    CASE id = "file-r1" -> "step_metrics.csv"
      [] id = "file-r2" -> "results.csv"
      [] OTHER -> "checkpoints.csv"

\* The error of a failed job: an optional field of the job.
JobErrors == {None, Some([code |-> "invalid_training_file", message |-> "bad file"])}

\* The lists of up to n different ids: a job names each result file once.
DistinctSeqs(S, n) ==
    {q \in SeqsUpTo(S, n) : \A i, j \in 1..Len(q) : q[i] = q[j] => i = j}

\* What a job can be once it ends.
EndedJobs ==
    {[status |-> "failed", error |-> e, result_files |-> <<>>,
      trained_tokens |-> None, fine_tuned_model |-> None] : e \in JobErrors}
    \cup {[status |-> "cancelled", error |-> None, result_files |-> <<>>,
           trained_tokens |-> None, fine_tuned_model |-> None]}
    \cup {[status |-> "succeeded", error |-> None, result_files |-> rf,
           trained_tokens |-> Some(1000), fine_tuned_model |-> Some("ft:model")] :
            rf \in DistinctSeqs(ResultIds, MaxResultFiles)}

RunningJob(st) ==
    [status |-> st, error |-> None, result_files |-> <<>>,
     trained_tokens |-> None, fine_tuned_model |-> None]

Rank(st) == CASE st = "validating_files" -> 0 [] st = "queued" -> 1 [] OTHER -> 2

\* ------------------------------------------------------------------ state
VARIABLES
    cfg,              \* the configuration _setup_with_config resolved
    args,             \* the arguments of launch_fine_tune
    fs,               \* the text files of training_dir
    pc,               \* where the call is
    ret,              \* what the call returned or raised, once pc = "done"
    dataset,          \* launch_fine_tune's dataset
    val_dataset,      \* launch_fine_tune's val_dataset (None or a list)
    total,            \* total tokens printed
    cost,             \* estimated cost printed
    disk,             \* files the run wrote locally
    file_content,     \* (name, stream) of the training upload
    val_file_content, \* (name, stream) of the validation upload, or None
    user_input,       \* the operator's answer, once asked
    file_object,      \* _upload_file_and_wait's file_object
    file_id,          \* id of the processed training file
    val_file_id,      \* id of the processed validation file, or None
    ft_job,           \* the created job's id
    ongoing_job,      \* the last poll response
    polled,           \* the statuses the polls returned, in order
    results_files,    \* result file ids taken from the last response
    output,           \* fetch_results_files's output list
    log,              \* what the run printed about the job's end
    trace,            \* the sleeps and the remote calls of the run, in order
    remote_files,     \* the remote service's files
    remote_job,       \* the remote service's job, or None
    job_request,      \* the job-create request the remote received
    ctd_validation,   \* argument of a direct create_training_dataset call
    ctd_ret,          \* its result
    u_in,             \* arguments of a direct call of a utils.py / data.py function
    u_ret             \* the function called and its result

locals == <<dataset, val_dataset, total, cost, file_content, val_file_content,
            user_input, file_object, file_id, val_file_id, ft_job, ongoing_job,
            polled, results_files, output>>
remote == <<remote_files, remote_job, job_request>>
inputs == <<cfg, args, fs>>
direct == <<ctd_validation, ctd_ret, u_in, u_ret>>
vars == <<cfg, args, fs, pc, ret, dataset, val_dataset, total, cost, disk,
          file_content, val_file_content, user_input, file_object, file_id,
          val_file_id, ft_job, ongoing_job, polled, results_files, output, log,
          trace, remote_files, remote_job, job_request, ctd_validation, ctd_ret,
          u_in, u_ret>>

FileNames == {"system_prompt", "questions", "answers", "val_questions", "val_answers"}

\* ------------------------------------------------------------------ inputs
\* OpenFT._setup_with_config: the options the pipeline reads.
Configs ==
    {c \in [with_val_data : BOOLEAN,
            max_token_size : {16, DefaultMaxTokenSize},
            data_split : {<<NL>>},
            num_epochs : {1, 3},
            batch_size : {0, 4},
            poll_wait : {DefaultPollWait},
            token_cost : {DefaultTokenCost}] :
        (c.num_epochs = 1) <=> (c.batch_size = 0)}

Args ==
    [user_prompt : BOOLEAN, write_to_disk : BOOLEAN,
     dataset_name : {"dataset.jsonl"}, output_dir : {""}]

PipelineTexts == {<<"x">>, <<NL>>}
PipelineFiles == {NoFile} \cup {File(t) : t \in PipelineTexts}

\* The training directories a run is given: the validation files matter
\* only to a run with validation; without it they are absent or a
\* mismatching pair nobody reads.
PipelineFS(with_val) ==
    {f \in [FileNames -> PipelineFiles] :
        /\ f["system_prompt"] \in {NoFile, File(<<"x">>)}
        /\ with_val \/ <<f["val_questions"], f["val_answers"]>>
                          \in {<<NoFile, NoFile>>, <<File(<<NL>>), File(<<"x">>)>>}}

BuildSplits == {<<NL, NL>>, <<NL>>, <<>>}
BuildTexts == SeqsUpTo(Alphabet, MaxFileLen)
BuildSysFiles == {NoFile, File(<<>>), File(<<"x">>), File(<<"x", NL, NL, "x">>)}

\* The directories a direct create_training_dataset(validation) call is
\* given: the pair of files it reads ranges over every text.
BuildFS(validation) ==
    {[n \in FileNames |->
        CASE n = "system_prompt" -> sp
          [] n = QPath(validation) -> q
          [] n = APath(validation) -> a
          [] OTHER -> NoFile] :
        sp \in BuildSysFiles,
        q \in {NoFile} \cup {File(t) : t \in BuildTexts},
        a \in {NoFile} \cup {File(t) : t \in BuildTexts}}

NoCall == Ok(<<>>)
NoUtil == [op |-> "", value |-> <<>>]
NoInput ==
    [call |-> "", dataset |-> <<>>, tokens_per_msg |-> DefaultTokensPerMsg,
     bound |-> DefaultMaxTokenSize, num_epochs |-> 1, cost_per_1k |-> DefaultTokenCost]

Blank ==
    /\ ret = NoCall
    /\ dataset = <<>> /\ val_dataset = None
    /\ total = 0 /\ cost = 0
    /\ disk = <<>>
    /\ file_content = None /\ val_file_content = None
    /\ user_input = None
    /\ file_object = None /\ file_id = None /\ val_file_id = None
    /\ ft_job = None /\ ongoing_job = None
    /\ polled = <<>> /\ results_files = <<>> /\ output = <<>>
    /\ log = <<>> /\ trace = <<>>
    /\ remote_files = <<>> /\ remote_job = None /\ job_request = None
    /\ ctd_ret = NoCall
    /\ u_ret = NoUtil

\* A constructed OpenFT about to run launch_fine_tune.
Init ==
    /\ cfg \in Configs
    /\ args \in Args
    /\ fs \in PipelineFS(cfg.with_val_data)
    /\ pc = "start"
    /\ ctd_validation = FALSE
    /\ u_in = NoInput
    /\ Blank

\* A constructed OpenFT about to run create_training_dataset(validation).
InitBuild ==
    /\ cfg \in [with_val_data : {FALSE}, max_token_size : {DefaultMaxTokenSize},
                data_split : BuildSplits, num_epochs : {1}, batch_size : {0},
                poll_wait : {DefaultPollWait}, token_cost : {DefaultTokenCost}]
    /\ args \in [user_prompt : {FALSE}, write_to_disk : {FALSE},
                 dataset_name : {"dataset.jsonl"}, output_dir : {""}]
    /\ ctd_validation \in BOOLEAN
    /\ fs \in BuildFS(ctd_validation)
    /\ pc = "ctd_call"
    /\ u_in = NoInput
    /\ Blank

\* ------------------------------------------------------------------ create_training_dataset, called directly
CreateTrainingDatasetCall ==
    /\ pc = "ctd_call"
    /\ ctd_ret' = create_training_dataset(cfg.data_split, fs, ctd_validation)
    /\ pc' = "ctd_done"
    /\ UNCHANGED <<inputs, ret, locals, disk, log, trace, remote, ctd_validation,
                   u_in, u_ret>>

NextBuild == CreateTrainingDatasetCall

SpecBuild == InitBuild /\ [][NextBuild]_vars

\* ------------------------------------------------------------------ launch_fine_tune
\* Python's truth value of val_dataset: None and the empty list are false.
Truthy(opt_list) == opt_list # None /\ opt_list[1] # <<>>

Event(op, arg, secs) == [op |-> op, arg |-> arg, secs |-> secs]
IsRemoteCall(e) == e.op # "sleep"
RemoteCalls(tr) == SelectSeq(tr, IsRemoteCall)
IsFetch(e) == e.op = "jobs.retrieve"
IsLoopEvent(e) == e.op \in {"sleep", "jobs.retrieve"}

Finish(r) == pc' = "done" /\ ret' = r

\* Lines 88-91: build the dataset and, with validation, the validation one.
CreateDatasets ==
    /\ pc = "start"
    /\ LET r == create_training_dataset(cfg.data_split, fs, FALSE)
           rv == create_training_dataset(cfg.data_split, fs, TRUE)
       IN  IF r.raised
           THEN Finish(r) /\ UNCHANGED <<dataset, val_dataset>>
           ELSE /\ dataset' = r.value
                /\ IF cfg.with_val_data
                   THEN IF rv.raised
                        THEN Finish(rv) /\ UNCHANGED val_dataset
                        ELSE /\ val_dataset' = Some(rv.value)
                             /\ pc' = "check" /\ UNCHANGED ret
                   ELSE pc' = "check" /\ UNCHANGED <<ret, val_dataset>>
    /\ UNCHANGED <<inputs, total, cost, disk, file_content, val_file_content,
                   user_input, file_object, file_id, val_file_id, ft_job,
                   ongoing_job, polled, results_files, output, log, trace,
                   remote, direct>>

\* The flag asserted at lines 96 and 99.
WithinBoundAlways(data, bound) == TRUE

WithinBound(data, bound) == check_all_examples_are_bounded(data, bound).all_good

\* Lines 93-99: every example within max_token_size, or AssertionError.
CheckBounds ==
    /\ pc = "check"
    /\ IF ~WithinBound(dataset, cfg.max_token_size)
       THEN Finish(Raise("AssertionError",
                <<"Not all examples are within the", cfg.max_token_size,
                  "number of tokens limit">>))
       ELSE IF Truthy(val_dataset) /\ ~WithinBound(val_dataset[1], cfg.max_token_size)
       THEN Finish(Raise("AssertionError",
                <<"Not all validation examples are within the", cfg.max_token_size,
                  "number of tokens limit">>))
       ELSE pc' = "estimate" /\ UNCHANGED ret
    /\ UNCHANGED <<inputs, locals, disk, log, trace, remote, direct>>

Stream(name, lines, from) == [name |-> name, data |-> lines, from |-> from, closed |-> FALSE]

\* Lines 101-127: the totals printed, then the upload streams, written to
\* training_dir first when write_to_disk.
EstimateAndSerialize ==
    /\ pc = "estimate"
    /\ total' = calc_total_tokens(dataset, DefaultTokensPerMsg)
                + (IF Truthy(val_dataset)
                   THEN calc_total_tokens(val_dataset[1], DefaultTokensPerMsg) ELSE 0)
    /\ cost' = calc_cost_of_training(dataset, cfg.num_epochs, cfg.token_cost)
               + (IF Truthy(val_dataset)
                  THEN calc_cost_of_training(val_dataset[1], cfg.num_epochs, cfg.token_cost)
                  ELSE 0)
    /\ LET val_name == <<"val_", args.dataset_name>>
           train_file == [path |-> <<args.dataset_name>>,
                          data |-> write_dataset_to_jsonl(dataset)]
           val_file == [path |-> val_name,
                        data |-> write_dataset_to_jsonl(val_dataset[1])]
       IN  IF args.write_to_disk
           THEN /\ file_content' = Some(Stream(<<args.dataset_name>>, train_file.data, "disk"))
                /\ IF Truthy(val_dataset)
                   THEN /\ disk' = disk \o <<train_file, val_file>>
                        /\ val_file_content' = Some(Stream(val_name, val_file.data, "disk"))
                   ELSE /\ disk' = Append(disk, train_file)
                        /\ val_file_content' = None
           ELSE /\ disk' = disk
                /\ file_content' = Some(Stream(<<args.dataset_name>>,
                                               write_dataset_to_buffer(dataset), "buffer"))
                /\ val_file_content' =
                      IF Truthy(val_dataset)
                      THEN Some(Stream(val_name, write_dataset_to_buffer(val_dataset[1]),
                                       "buffer"))
                      ELSE None
    /\ pc' = "confirm"
    /\ UNCHANGED <<inputs, ret, dataset, val_dataset, user_input, file_object,
                   file_id, val_file_id, ft_job, ongoing_job, polled,
                   results_files, output, log, trace, remote, direct>>

\* Lines 129-133: the confirmation gate.
Confirm ==
    /\ pc = "confirm"
    /\ IF args.user_prompt
       THEN \E answer \in Answers :
              /\ user_input' = Some(answer)
              /\ IF Declined(answer)
                 THEN /\ log' = Append(log, <<"Exiting...">>)
                      /\ Finish(Ok(<<>>))
                 ELSE pc' = "upload_train" /\ UNCHANGED <<ret, log>>
       ELSE pc' = "upload_train" /\ UNCHANGED <<ret, log, user_input>>
    /\ UNCHANGED <<inputs, dataset, val_dataset, total, cost, disk, file_content,
                   val_file_content, file_object, file_id, val_file_id, ft_job,
                   ongoing_job, polled, results_files, output, trace, remote, direct>>

Which == {"train", "val"}
ContentOf(which) == IF which = "train" THEN file_content ELSE val_file_content

\* _upload_file_and_wait, lines 196-200: files.create, then close the stream.
CreateFile(which) ==
    /\ pc = "upload_" \o which
    /\ LET content == ContentOf(which)[1]
           id == FileIds[Len(remote_files) + 1]
       IN  /\ remote_files' = Append(remote_files,
                  [id |-> id, filename |-> content.name, purpose |-> "fine-tune",
                   status |-> "uploaded", data |-> content.data])
           /\ file_object' = Some([id |-> id, status |-> "uploaded"])
           /\ trace' = Append(trace, Event("files.create", id, 0))
           /\ IF which = "train"
              THEN /\ file_content' = Some([content EXCEPT !.closed = TRUE])
                   /\ UNCHANGED val_file_content
              ELSE /\ val_file_content' = Some([content EXCEPT !.closed = TRUE])
                   /\ UNCHANGED file_content
    /\ pc' = "wait_" \o which
    /\ UNCHANGED <<inputs, ret, dataset, val_dataset, total, cost, disk, user_input,
                   file_id, val_file_id, ft_job, ongoing_job, polled, results_files,
                   output, log, remote_job, job_request, direct>>

\* The condition asserted at line 202.
FileProcessedAlways(status) == TRUE

FileProcessed(status) == status = "processed"

\* _upload_file_and_wait, lines 201-203: wait_for_processing, then the assert.
WaitFile(which) ==
    /\ pc = "wait_" \o which
    /\ \E status \in FileStatuses :
          LET k == Len(remote_files)
              id == file_object[1].id
          IN  /\ remote_files' = [remote_files EXCEPT ![k].status = status]
              /\ file_object' = Some([id |-> id, status |-> status])
              /\ trace' = Append(trace, Event("files.wait_for_processing", id, 0))
              /\ IF ~FileProcessed(status)
                 THEN /\ Finish(Raise("AssertionError", <<"File was not processed correctly">>))
                      /\ UNCHANGED <<file_id, val_file_id>>
                 ELSE /\ UNCHANGED ret
                      /\ IF which = "train"
                         THEN /\ file_id' = Some(id)
                              /\ UNCHANGED val_file_id
                              /\ pc' = IF Truthy(val_dataset) THEN "upload_val"
                                       ELSE "create_job"
                         ELSE /\ val_file_id' = Some(id)
                              /\ UNCHANGED file_id
                              /\ pc' = "create_job"
    /\ UNCHANGED <<inputs, dataset, val_dataset, total, cost, disk, file_content,
                   val_file_content, user_input, ft_job, ongoing_job, polled,
                   results_files, output, log, remote_job, job_request, direct>>

\* _create_fine_tune_job, lines 213-215.
HyperparametersBatchAlways ==
    [n_epochs |-> cfg.num_epochs, batch_size |-> Some(cfg.batch_size)]

Hyperparameters ==
    [n_epochs |-> cfg.num_epochs,
     batch_size |-> IF cfg.batch_size > 0 THEN Some(cfg.batch_size) ELSE None]

\* Lines 143-146 and _create_fine_tune_job: the remote creates the job.
CreateJob ==
    /\ pc = "create_job"
    /\ job_request' = Some([training_file |-> file_id[1],
                            validation_file |-> val_file_id,
                            hyperparameters |-> Hyperparameters])
    /\ remote_job' = Some(RunningJob("validating_files"))
    /\ ft_job' = Some(JobId)
    /\ trace' = Append(trace, Event("jobs.create", JobId, 0))
    /\ pc' = "sleep"
    /\ UNCHANGED <<inputs, ret, dataset, val_dataset, total, cost, disk,
                   file_content, val_file_content, user_input, file_object,
                   file_id, val_file_id, ongoing_job, polled, results_files,
                   output, log, remote_files, direct>>

\* The remote service moves its job forward; an ended job stays as it is.
RemoteStep ==
    /\ remote_job # None
    /\ remote_job[1].status \in NonTerminal
    /\ \E j \in {RunningJob(st) : st \in NonTerminal} \cup EndedJobs :
          /\ j.status \in NonTerminal => Rank(j.status) > Rank(remote_job[1].status)
          /\ remote_job' = Some(j)
    /\ UNCHANGED <<inputs, pc, ret, locals, disk, log, trace, remote_files,
                   job_request, direct>>

Fetches == Len(SelectSeq(trace, IsFetch))

\* Line 149: time.sleep(self.poll_wait). The model stops counting polls of
\* a job that has not ended after MaxPolls of them.
Sleep ==
    /\ pc = "sleep"
    /\ Fetches < MaxPolls \/ remote_job[1].status \notin NonTerminal
    /\ trace' = Append(trace, Event("sleep", "", cfg.poll_wait))
    /\ pc' = "fetch"
    /\ UNCHANGED <<inputs, ret, locals, disk, log, remote, direct>>

\* The match of lines 151-164 on a poll response: what the loop does next.
PollOutcomeGiveUp(job) ==
    CASE job.status = "succeeded" -> "break"
      [] job.status = "failed" -> IF job.error = None THEN "raise" ELSE "return"
      [] job.status = "cancelled" -> "return"
      [] OTHER -> "return"

PollOutcomeCancelledBreaks(job) ==
    CASE job.status = "succeeded" -> "break"
      [] job.status = "failed" -> IF job.error = None THEN "raise" ELSE "return"
      [] job.status = "cancelled" -> "break"
      [] OTHER -> "continue"

PollOutcome(job) ==
    CASE job.status = "succeeded" -> "break"
      [] job.status = "failed" -> IF job.error = None THEN "raise" ELSE "return"
      [] job.status = "cancelled" -> "return"
      [] OTHER -> "continue"

\* What lines 153-164 print for a response.
PollLog(job) ==
    CASE job.status = "succeeded" -> << <<"Fine Tuning Job succeeded">> >>
      [] job.status = "failed" ->
            << <<"Fine Tuning Job failed">> >>
            \o (IF job.error = None THEN <<>>
                ELSE << <<"Error status", job.error[1].code, job.error[1].message>> >>)
      [] job.status = "cancelled" -> << <<"Fine Tuning Job was cancelled, exiting">> >>
      [] OTHER -> << <<"Fine Tuning Job status", job.status>> >>

\* Lines 150-164: fetch the job and match its status.
Poll ==
    /\ pc = "fetch"
    /\ LET job == remote_job[1]
           next == PollOutcome(job)
       IN  /\ ongoing_job' = Some(job)
           /\ polled' = Append(polled, job.status)
           /\ trace' = Append(trace, Event("jobs.retrieve", ft_job[1], 0))
           /\ log' = log \o PollLog(job)
           /\ CASE next = "break" -> pc' = "collect" /\ UNCHANGED ret
                [] next = "return" -> Finish(Ok(<<>>))
                [] next = "raise" ->
                     Finish(Raise("AttributeError",
                                  <<"'NoneType' object has no attribute 'code'">>))
                [] OTHER -> pc' = "sleep" /\ UNCHANGED ret
    /\ UNCHANGED <<inputs, dataset, val_dataset, total, cost, disk, file_content,
                   val_file_content, user_input, file_object, file_id, val_file_id,
                   ft_job, results_files, output, remote, direct>>

\* The object lines 167-169 read: ongoing_job, the last poll response.
CollectedJobAsCreated == RunningJob("validating_files")

CollectedJob == ongoing_job[1]

\* Lines 167-173: the succeeded job's result files, tokens and model.
Collect ==
    /\ pc = "collect"
    /\ LET job == CollectedJob
       IN  IF job.trained_tokens = None
           THEN /\ Finish(Raise("TypeError", <<"unsupported operand type(s) for *">>))
                /\ log' = Append(log, <<"Fine Tuned Model is", job.fine_tuned_model>>)
                /\ results_files' = job.result_files
           ELSE /\ results_files' = job.result_files
                /\ log' = log \o << <<"Fine Tuned Model is", job.fine_tuned_model>>,
                                    <<"Total cost of training was",
                                      job.trained_tokens[1] * cfg.token_cost,
                                      job.trained_tokens[1]>> >>
                /\ pc' = "fetch_files" /\ UNCHANGED ret
    /\ UNCHANGED <<inputs, dataset, val_dataset, total, cost, disk, file_content,
                   val_file_content, user_input, file_object, file_id, val_file_id,
                   ft_job, ongoing_job, polled, output, trace, remote, direct>>

\* os.path.join(output_dir, filename)
PathJoin(dir, name) == IF dir = "" THEN <<name>> ELSE <<dir, "/", name>>

\* How one _fetch_and_write_file call can end: written, the retrieval
\* refused by the remote, or the local write refused by the file system.
FetchOutcomes == {"written", "retrieve_fails", "write_fails"}

\* Line 185: output.append(...)
OutputAfterPrepend(out, fp) == <<fp>> \o out

OutputAfter(out, fp) == Append(out, fp)

\* One turn of the loop of fetch_results_files (lines 184-185) with
\* _fetch_and_write_file (lines 189-193); nothing catches a failing
\* retrieval or write, which raises out of the caller.
FetchFile ==
    /\ pc = "fetch_files"
    /\ Len(output) < Len(results_files)
    /\ LET rf == results_files[Len(output) + 1]
           fp == PathJoin(args.output_dir, RemoteFilename(rf))
       IN  \E outcome \in FetchOutcomes :
              CASE outcome = "written" ->
                   /\ trace' = trace \o <<Event("files.retrieve", rf, 0),
                                          Event("files.content", rf, 0)>>
                   /\ disk' = Append(disk, [path |-> fp, data |-> <<rf>>])
                   /\ output' = OutputAfter(output, fp)
                   /\ UNCHANGED <<pc, ret>>
                [] outcome = "retrieve_fails" ->
                   /\ trace' = Append(trace, Event("files.retrieve", rf, 0))
                   /\ Finish(Raise("APIError", <<rf>>))
                   /\ UNCHANGED <<disk, output>>
                [] OTHER ->
                   /\ trace' = trace \o <<Event("files.retrieve", rf, 0),
                                          Event("files.content", rf, 0)>>
                   /\ Finish(Raise("OSError", fp))
                   /\ UNCHANGED <<disk, output>>
    /\ UNCHANGED <<inputs, dataset, val_dataset, total, cost, file_content,
                   val_file_content, user_input, file_object, file_id, val_file_id,
                   ft_job, ongoing_job, polled, results_files, log, remote, direct>>

\* Lines 186 and 176: the loop is over, the paths are returned.
ReturnResults ==
    /\ pc = "fetch_files"
    /\ Len(output) = Len(results_files)
    /\ Finish(Ok(output))
    /\ UNCHANGED <<inputs, locals, disk, log, trace, remote, direct>>

\* The steps of the run itself.
Run ==
    \/ CreateDatasets
    \/ CheckBounds
    \/ EstimateAndSerialize
    \/ Confirm
    \/ \E which \in Which : CreateFile(which)
    \/ \E which \in Which : WaitFile(which)
    \/ CreateJob
    \/ Sleep
    \/ Poll
    \/ Collect
    \/ FetchFile
    \/ ReturnResults

Next == Run \/ RemoteStep

Spec == Init /\ [][Next]_vars

\* The run is one sequential thread: a step it can take, it takes. Nothing
\* obliges the remote service to move its job.
SpecLive == Init /\ [][Next]_vars /\ WF_vars(Run)

\* ------------------------------------------------------------------ fetch_results_files, called directly
FetchDirs == {"", "out"}

\* A constructed OpenFT about to run fetch_results_files(results_files,
\* output_dir) over up to MaxResultFiles + 1 ids.
InitFetch ==
    /\ cfg \in [with_val_data : {FALSE}, max_token_size : {DefaultMaxTokenSize},
                data_split : {<<NL>>}, num_epochs : {1}, batch_size : {0},
                poll_wait : {DefaultPollWait}, token_cost : {DefaultTokenCost}]
    /\ args \in [user_prompt : {FALSE}, write_to_disk : {FALSE},
                 dataset_name : {"dataset.jsonl"}, output_dir : FetchDirs]
    /\ fs = [n \in FileNames |-> NoFile]
    /\ ctd_validation = FALSE
    /\ u_in = NoInput
    /\ pc = "fetch_files"
    /\ ret = NoCall
    /\ dataset = <<>> /\ val_dataset = None
    /\ total = 0 /\ cost = 0
    /\ disk = <<>>
    /\ file_content = None /\ val_file_content = None
    /\ user_input = None
    /\ file_object = None /\ file_id = None /\ val_file_id = None
    /\ ft_job = None /\ ongoing_job = None
    /\ polled = <<>> /\ output = <<>>
    /\ results_files \in SeqsUpTo(FetchIds, MaxResultFiles + 1)
    /\ log = <<>> /\ trace = <<>>
    /\ remote_files = <<>> /\ remote_job = None /\ job_request = None
    /\ ctd_ret = NoCall
    /\ u_ret = NoUtil

NextFetch == FetchFile \/ ReturnResults

SpecFetch == InitFetch /\ [][NextFetch]_vars

\* ------------------------------------------------------------------ utils.py and data.py, called directly
UtilTexts == {<<>>, <<"\"">>, <<NL, "\\">>}
UtilSysTexts == {<<>>, <<"x">>}

\* One record of 1000 tokens: 15 for its three messages and the reply
\* priming, 985 for its answer.
KiloDataset ==
    <<create_single_ft_message(<<>>, <<>>, [i \in 1..985 |-> "x"])>>

\* The datasets a direct call is given: up to MaxRecords records as
\* create_training_dataset builds them, all with one system prompt.
UtilDatasets ==
    UNION {SeqsUpTo({create_single_ft_message(sp, q, a) : q \in UtilTexts, a \in UtilTexts},
                    MaxRecords) : sp \in UtilSysTexts}

UtilFunctions ==
    {"calc_total_tokens", "check_all_examples_are_bounded", "calc_cost_of_training",
     "serialize"}

\* The direct calls: each function on every small dataset, and the two
\* counting functions on the dataset of 1000 tokens as well.
UtilInputs ==
    [call : UtilFunctions,
     dataset : UtilDatasets,
     tokens_per_msg : {DefaultTokensPerMsg, 1},
     bound : {15, 17, DefaultMaxTokenSize},
     num_epochs : {1, 2},
     cost_per_1k : {DefaultTokenCost}]
    \cup
    [call : {"calc_total_tokens", "calc_cost_of_training"},
     dataset : {KiloDataset},
     tokens_per_msg : {DefaultTokensPerMsg},
     bound : {DefaultMaxTokenSize},
     num_epochs : {1, 2},
     cost_per_1k : {DefaultTokenCost}]

\* A caller about to call one function of utils.py or data.py on a dataset.
InitUtils ==
    /\ cfg \in [with_val_data : {FALSE}, max_token_size : {DefaultMaxTokenSize},
                data_split : {<<NL, NL>>}, num_epochs : {1}, batch_size : {0},
                poll_wait : {DefaultPollWait}, token_cost : {DefaultTokenCost}]
    /\ args \in [user_prompt : {FALSE}, write_to_disk : {FALSE},
                 dataset_name : {"dataset.jsonl"}, output_dir : {""}]
    /\ fs = [n \in FileNames |-> NoFile]
    /\ ctd_validation = FALSE
    /\ u_in \in UtilInputs
    /\ pc = "u_call"
    /\ Blank

UtilReturn(op, value) ==
    /\ pc = "u_call"
    /\ u_in.call = op
    /\ u_ret' = [op |-> op, value |-> value]
    /\ pc' = "u_done"
    /\ UNCHANGED <<inputs, ret, locals, disk, log, trace, remote, ctd_validation,
                   ctd_ret, u_in>>

\* calc_total_tokens(dataset, encoding, tokens_per_msg), and
\* _tokens_for_messages on each of its records.
CalcTotalTokensCall ==
    UtilReturn("calc_total_tokens",
        [total |-> calc_total_tokens(u_in.dataset, u_in.tokens_per_msg),
         per_record |-> [i \in 1..Len(u_in.dataset) |->
            tokens_for_messages(u_in.dataset[i].messages, u_in.tokens_per_msg)]])

\* check_all_examples_are_bounded(dataset, encoding, bound)
CheckBoundedCall ==
    UtilReturn("check_all_examples_are_bounded",
        check_all_examples_are_bounded(u_in.dataset, u_in.bound))

\* calc_cost_of_training(dataset, encoding, num_epochs, cost_per_1k)
CalcCostCall ==
    UtilReturn("calc_cost_of_training",
        calc_cost_of_training(u_in.dataset, u_in.num_epochs, u_in.cost_per_1k))

\* write_dataset_to_jsonl(dataset, path), the file read back, and
\* write_dataset_to_buffer(dataset).
SerializeCall ==
    UtilReturn("serialize",
        [jsonl |-> write_dataset_to_jsonl(u_in.dataset),
         buffer |-> write_dataset_to_buffer(u_in.dataset)])

NextUtils ==
    \/ CalcTotalTokensCall
    \/ CheckBoundedCall
    \/ CalcCostCall
    \/ SerializeCall

SpecUtils == InitUtils /\ [][NextUtils]_vars

\* ------------------------------------------------------------------ the utilities' properties
RECURSIVE SumSeq(_)
SumSeq(sq) == IF sq = <<>> THEN 0 ELSE Head(sq) + SumSeq(Tail(sq))

ContentLens(record) ==
    Len(record.messages[1].content) + Len(record.messages[2].content)
        + Len(record.messages[3].content)

\* C11 as claimed: a record counts, per message, the overhead and the
\* tokens of the content and of nothing else, plus 3 once per record; the
\* total is the sum of the records' counts.
C11_ContentOnly ==
    (pc = "u_done" /\ u_ret.op = "calc_total_tokens")
    => /\ \A i \in 1..Len(u_in.dataset) :
            u_ret.value.per_record[i] =
                3 * u_in.tokens_per_msg + ContentLens(u_in.dataset[i]) + 3
       /\ u_ret.value.total = SumSeq(u_ret.value.per_record)

\* C11 amended: a record counts, per message, the overhead and the tokens of
\* every value of the message, its role (one token) and its content, plus 3
\* once per record; the total is the sum of the records' counts.
C11_EveryValueCounted ==
    (pc = "u_done" /\ u_ret.op = "calc_total_tokens")
    => /\ \A i \in 1..Len(u_in.dataset) :
            u_ret.value.per_record[i] =
                3 * (u_in.tokens_per_msg + 1) + ContentLens(u_in.dataset[i]) + 3
       /\ u_ret.value.total = SumSeq(u_ret.value.per_record)

\* Two records of different lengths were counted with an overhead of 1.
C11_Witness ==
    /\ pc = "u_done" /\ u_ret.op = "calc_total_tokens"
    /\ u_in.tokens_per_msg = 1
    /\ Len(u_in.dataset) = 2
    /\ u_ret.value.per_record = <<9, 12>>

\* The token count of a record with the default overhead.
DefaultCount(record) == 3 * (DefaultTokensPerMsg + 1) + ContentLens(record) + ReplyPriming

\* C12: check_all_examples_are_bounded goes through every record, also after
\* one over the bound: it returns all_good true exactly when every record's
\* count is <= bound, max_tokens the largest count (0 for no record), so
\* all_good implies max_tokens <= bound, and it reports the index of every
\* record over the bound, in order.
C12_BoundedCheck ==
    (pc = "u_done" /\ u_ret.op = "check_all_examples_are_bounded")
    => LET d == u_in.dataset
           v == u_ret.value
           over == {i \in 1..Len(d) : DefaultCount(d[i]) > u_in.bound}
       IN  /\ v.all_good <=> (over = {})
           /\ \A i \in 1..Len(d) : DefaultCount(d[i]) <= v.max_tokens
           /\ IF d = <<>> THEN v.max_tokens = 0
              ELSE \E i \in 1..Len(d) : DefaultCount(d[i]) = v.max_tokens
           /\ v.all_good => v.max_tokens <= u_in.bound
           /\ Len(v.reported) = Cardinality(over)
           /\ \A k \in 1..Len(v.reported) : v.reported[k] + 1 \in over
           /\ \A k \in 1..(Len(v.reported) - 1) : v.reported[k] < v.reported[k + 1]

\* The first record is over the bound and the second, larger, is the maximum.
C12_Witness ==
    /\ pc = "u_done" /\ u_ret.op = "check_all_examples_are_bounded"
    /\ u_in.bound = 17
    /\ u_ret.value = [all_good |-> FALSE, max_tokens |-> 20, reported |-> <<0, 1>>]
    /\ DefaultCount(u_in.dataset[1]) = 18

\* ------------------------------------------------------------------ the dataset builder's properties
\* What the three reads of a direct call yield.
ReadSys == load_from_file(fs["system_prompt"], None)
ReadQuestions == load_from_file(fs[QPath(ctd_validation)], cfg.data_split)
ReadAnswers == load_from_file(fs[APath(ctd_validation)], cfg.data_split)
AllRead == ~ReadSys.raised /\ ~ReadQuestions.raised /\ ~ReadAnswers.raised

\* C8: given N questions and N answers after splitting, the builder returns
\* exactly N records in input order; record i holds question i as its user
\* message and answer i as its assistant message, and every record holds the
\* one system prompt string.
C8_BuilderPairsInOrder ==
    (pc = "ctd_done" /\ AllRead
        /\ Len(ReadQuestions.value) = Len(ReadAnswers.value))
    => /\ ~ctd_ret.raised
       /\ Len(ctd_ret.value) = Len(ReadQuestions.value)
       /\ \A i \in 1..Len(ctd_ret.value) :
            ctd_ret.value[i].messages =
                << [role |-> "system", content |-> fs["system_prompt"].data],
                   [role |-> "user", content |-> ReadQuestions.value[i]],
                   [role |-> "assistant", content |-> ReadAnswers.value[i]] >>

\* A call that returned two records whose questions differ from their answers.
C8_Witness ==
    /\ pc = "ctd_done" /\ ~ctd_ret.raised
    /\ Len(ctd_ret.value) = 2
    /\ ReadQuestions.value = << <<"x">>, <<>> >>
    /\ ReadAnswers.value = << <<>>, <<"x", "x">> >>

\* C9: when splitting yields N questions and M answers with N # M, the
\* builder fails with an error and returns no record, never a truncated
\* dataset of min(N, M) records.
C9_MismatchFails ==
    (pc = "ctd_done" /\ AllRead
        /\ Len(ReadQuestions.value) # Len(ReadAnswers.value))
    => /\ ctd_ret.raised
       /\ ctd_ret.exc = "AssertionError"
       /\ ctd_ret.value = <<>>

\* A call given two questions and one answer, which raised.
C9_Witness ==
    /\ pc = "ctd_done" /\ AllRead
    /\ Len(ReadQuestions.value) = 2 /\ Len(ReadAnswers.value) = 1
    /\ ctd_ret.raised

\* C10 as claimed: every record the builder returns has exactly the three
\* messages system, user, assistant in this order, each with a non-empty
\* content, whatever the input files hold.
C10_ContentsNonEmpty ==
    (pc = "ctd_done" /\ ~ctd_ret.raised)
    => \A i \in 1..Len(ctd_ret.value) :
          LET m == ctd_ret.value[i].messages
          IN  /\ Len(m) = 3
              /\ m[1].role = "system" /\ m[2].role = "user" /\ m[3].role = "assistant"
              /\ \A k \in 1..3 : m[k].content # <<>>

\* ------------------------------------------------------------------ the pipeline's properties
Last(sq) == sq[Len(sq)]
HasEvent(op) == \E i \in 1..Len(trace) : trace[i].op = op
EventIndex(op, arg) ==
    IF \E i \in 1..Len(trace) : trace[i].op = op /\ trace[i].arg = arg
    THEN CHOOSE i \in 1..Len(trace) : trace[i].op = op /\ trace[i].arg = arg
    ELSE 0
ReturnedEmpty == pc = "done" /\ ~ret.raised /\ ret.value = <<>>
NoRemoteCall ==
    RemoteCalls(trace) = <<>> /\ remote_files = <<>> /\ remote_job = None
        /\ job_request = None

\* C1 as claimed: whenever a poll returns "failed" the run surfaces the
\* job's error (when it has one) and returns the empty list without
\* raising, polls no more and retrieves no result file, for every failed
\* job, its error being optional.
C1_FailedReturnsEmpty ==
    (polled # <<>> /\ Last(polled) = "failed")
    => /\ ReturnedEmpty
       /\ Fetches = Len(polled)
       /\ ~HasEvent("files.retrieve") /\ ~HasEvent("files.content")
       /\ (ongoing_job[1].error # None) =>
            \E i \in 1..Len(log) :
                log[i] = <<"Error status", ongoing_job[1].error[1].code,
                           ongoing_job[1].error[1].message>>

\* The events of the polling loop, in order.
LoopEvents == SelectSeq(trace, IsLoopEvent)

\* C2 as claimed: the polls answered by k non-terminal statuses and then a
\* terminal one, the run makes exactly k+1 fetches, each right after one
\* sleep of the configured interval and no sleep after the last; it returns
\* a non-empty list on "succeeded" with result files (their retrieval not
\* failing) and the empty list on "failed".
C2_PollsAndResult ==
    /\ \A i \in 1..Len(LoopEvents) :
          IF i % 2 = 1
          THEN LoopEvents[i].op = "sleep" /\ LoopEvents[i].secs = cfg.poll_wait
          ELSE LoopEvents[i].op = "jobs.retrieve"
    /\ Fetches = Len(polled)
    /\ \A i \in 1..(Len(polled) - 1) : polled[i] \in NonTerminal
    /\ (polled # <<>> /\ Last(polled) \notin NonTerminal)
          => Len(LoopEvents) = 2 * Len(polled)
    /\ (pc = "done" /\ polled # <<>> /\ Last(polled) = "succeeded"
            /\ ongoing_job[1].result_files # <<>>
            /\ ~(ret.raised /\ ret.exc \in {"APIError", "OSError"}))
          => ~ret.raised /\ ret.value # <<>>
    /\ (polled # <<>> /\ Last(polled) = "failed") => ReturnedEmpty

\* C3: the job is created only after the training file, and with validation
\* the validation file, were uploaded and reported "processed"; a file that
\* ends its wait in another status ends the run with an error and without a
\* job.
C3_NoPartialJobCreation ==
    /\ (HasEvent("jobs.create") \/ remote_job # None \/ job_request # None)
          => /\ Len(remote_files) = (IF cfg.with_val_data THEN 2 ELSE 1)
             /\ \A k \in 1..Len(remote_files) :
                   /\ remote_files[k].status = "processed"
                   /\ 0 < EventIndex("files.create", remote_files[k].id)
                   /\ EventIndex("files.create", remote_files[k].id)
                        < EventIndex("files.wait_for_processing", remote_files[k].id)
                   /\ EventIndex("files.wait_for_processing", remote_files[k].id)
                        < EventIndex("jobs.create", JobId)
             /\ remote_files[1].filename = <<args.dataset_name>>
             /\ cfg.with_val_data
                   => remote_files[2].filename = <<"val_", args.dataset_name>>
    /\ (\E k \in 1..Len(remote_files) :
            remote_files[k].status \notin {"uploaded", "processed"})
          => /\ pc = "done" /\ ret.raised
             /\ ~HasEvent("jobs.create") /\ remote_job = None /\ job_request = None

\* The training file was processed, the validation file was not, and the
\* run is over.
C3_Witness ==
    /\ pc = "done" /\ ret.raised
    /\ Len(remote_files) = 2
    /\ remote_files[1].status = "processed"
    /\ remote_files[2].status = "error"

\* y or yes in any case.
IsYes(text) ==
    \/ (Len(text) = 1 /\ text[1] \in {"y", "Y"})
    \/ (Len(text) = 3 /\ text[1] \in {"y", "Y"} /\ text[2] \in {"e", "E"}
          /\ text[3] \in {"s", "S"})

\* C4: with the confirmation gate enabled and an answer other than y/yes in
\* any case, the run returns the empty list and made no remote call at all.
C4_DeclineNoRemoteCall ==
    (args.user_prompt /\ user_input # None /\ ~IsYes(user_input[1]))
    => ReturnedEmpty /\ NoRemoteCall

\* The operator answered "yes " and the run is over.
C4_Witness ==
    /\ args.user_prompt /\ user_input = Some(<<"y", "e", "s", " ">>)
    /\ pc = "done"

\* What the run is given, read off the files and the configuration.
Exists(name) == fs[name].exists
Units(name) == PySplit(fs[name].data, cfg.data_split)
Mismatch(validation) ==
    /\ Exists(QPath(validation)) /\ Exists(APath(validation))
    /\ Len(Units(QPath(validation))) # Len(Units(APath(validation)))
InputMissing ==
    \/ \E n \in {"system_prompt", "questions", "answers"} : ~Exists(n)
    \/ (cfg.with_val_data /\ \E n \in {"val_questions", "val_answers"} : ~Exists(n))
RecordTokens(sp, q, a) == 3 * (DefaultTokensPerMsg + 1) + Len(sp) + Len(q) + Len(a) + ReplyPriming
RecordOver(validation) ==
    /\ Exists("system_prompt") /\ Exists(QPath(validation)) /\ Exists(APath(validation))
    /\ \E i \in 1..Min(Len(Units(QPath(validation))), Len(Units(APath(validation)))) :
          RecordTokens(fs["system_prompt"].data, Units(QPath(validation))[i],
                       Units(APath(validation))[i]) > cfg.max_token_size
BadInput ==
    \/ Mismatch(FALSE)
    \/ (cfg.with_val_data /\ Mismatch(TRUE))
    \/ InputMissing
    \/ RecordOver(FALSE)
    \/ (cfg.with_val_data /\ RecordOver(TRUE))

\* C5: with a question/answer count mismatch in the training data or in the
\* validation data of a run with validation, a missing input file, or a
\* record over max_token_size, the run ends with an error before any remote
\* call: no file and no job exist on the remote service.
C5_FailFast ==
    BadInput
    => /\ pc \in {"start", "check", "done"}
       /\ (pc = "done" => ret.raised)
       /\ NoRemoteCall

\* The training data passed and a validation record is over the bound.
C5_Witness ==
    /\ pc = "done" /\ ret.raised
    /\ cfg.with_val_data /\ ~RecordOver(FALSE) /\ RecordOver(TRUE)
    /\ ~Mismatch(FALSE) /\ ~Mismatch(TRUE) /\ ~InputMissing

\* C6: whenever a poll returns "cancelled" the run returns the empty list
\* without raising, polls no more and retrieves no result file.
C6_CancelledReturnsEmpty ==
    (polled # <<>> /\ Last(polled) = "cancelled")
    => /\ ReturnedEmpty
       /\ Fetches = Len(polled)
       /\ ~HasEvent("files.retrieve") /\ ~HasEvent("files.content")

\* The third poll returned "cancelled".
C6_Witness ==
    /\ Len(polled) = 3 /\ Last(polled) = "cancelled" /\ pc = "done"

Polling == pc \in {"sleep", "fetch"}

\* C7: the run leaves the polling loop only by a fetch that returned
\* succeeded, failed or cancelled, the status the remote job then has; so
\* when the remote job is in one of these the run ends, and while it is in
\* another the run stays in the loop.
C7_PollingLiveness ==
    /\ [][(Polling /\ ~Polling')
            => /\ Len(polled') = Len(polled) + 1
               /\ Last(polled') \in {"succeeded", "failed", "cancelled"}
               /\ Last(polled') = remote_job[1].status]_vars
    /\ []((pc = "sleep" /\ Fetches < MaxPolls) => ENABLED Sleep)
    /\ (Polling /\ remote_job[1].status \in {"succeeded", "failed", "cancelled"})
          ~> (pc = "done")

\* Two polls found the job under way, the third found it ended, and the
\* run is over.
C7_Witness ==
    /\ pc = "done" /\ Len(polled) = 3
    /\ polled[1] \in NonTerminal /\ polled[2] \in NonTerminal

\* What launch_fine_tune raises for the training dataset.
TrainingMismatchMessage(n, m) ==
    <<"Found a different number of questions", n, "to answers", m>>
TrainingBoundMessage ==
    <<"Not all examples are within the", cfg.max_token_size, "number of tokens limit">>

\* The run raised before any remote call, on its validation dataset alone.
ValidationFailure ==
    /\ pc = "done" /\ ret.raised /\ ret.exc = "AssertionError"
    /\ trace = <<>>
    /\ cfg.with_val_data
    /\ ~Mismatch(FALSE) /\ ~RecordOver(FALSE) /\ ~InputMissing

\* C13 as claimed: for a count mismatch and for a record over the token
\* bound alike, the message raised for the validation dataset differs from
\* the message raised for the training dataset with the same failure.
C13_ValidationDistinguished ==
    ValidationFailure
    => /\ Mismatch(TRUE)
            => ret.msg # TrainingMismatchMessage(Len(Units("val_questions")),
                                                 Len(Units("val_answers")))
       /\ (~Mismatch(TRUE) /\ RecordOver(TRUE)) => ret.msg # TrainingBoundMessage

\* The units of a question or answer file under the configured delimiter.
UnitsOf(name) ==
    IF cfg.data_split = <<>> THEN <<fs[name].data>>
    ELSE PySplit(fs[name].data, cfg.data_split)

\* C14: the system prompt file is read unsplit and gives exactly one string,
\* its whole text, delimiters included: a call whose files exist and whose
\* counts agree returns records that all carry that text, and no call fails
\* on the number of system prompts (the assert of one unit never fires).
C14_SystemPromptUnsplit ==
    (pc = "ctd_done" /\ fs["system_prompt"].exists)
    => /\ ~(ctd_ret.raised /\ ctd_ret.msg # <<>> /\ ctd_ret.msg[1] = "Found")
       /\ (/\ fs[QPath(ctd_validation)].exists /\ fs[APath(ctd_validation)].exists
           /\ Len(UnitsOf(QPath(ctd_validation))) = Len(UnitsOf(APath(ctd_validation))))
          => /\ ~ctd_ret.raised
             /\ ctd_ret.value # <<>>
             /\ \A i \in 1..Len(ctd_ret.value) :
                   ctd_ret.value[i].messages[1].content = fs["system_prompt"].data

\* A system prompt holding the delimiter went whole into two records.
C14_Witness ==
    /\ pc = "ctd_done" /\ ~ctd_ret.raised
    /\ cfg.data_split = <<NL, NL>>
    /\ fs["system_prompt"].data = <<"x", NL, NL, "x">>
    /\ Len(ctd_ret.value) = 2
    /\ ctd_ret.value[2].messages[1].content = <<"x", NL, NL, "x">>

\* C15: fetch_results_files returns one local path per id, in the order of
\* the ids, each output_dir joined with the filename the remote reports for
\* that id; a retrieval or a write that fails raises to the caller, which
\* then gets no list, and a list is only returned once every id was fetched.
C15_FetchPathsInOrder ==
    pc = "done"
    => /\ ~ret.raised
            => /\ Len(ret.value) = Len(results_files)
               /\ \A i \in 1..Len(results_files) :
                     ret.value[i] = PathJoin(args.output_dir, RemoteFilename(results_files[i]))
       /\ ret.raised => ret.value = <<>> /\ ret.exc \in {"APIError", "OSError"}
       /\ (trace # <<>> /\ Last(trace).op = "files.retrieve") => ret.raised
       /\ Len(RemoteCalls(trace)) < 2 * Len(results_files) => ret.raised

\* Three different files were fetched into a directory and their three
\* paths returned.
C15_Witness ==
    /\ pc = "done" /\ ~ret.raised
    /\ results_files = <<"file-r2", "file-r3", "file-r1">>
    /\ args.output_dir = "out"
    /\ ret.value = << <<"out", "/", "results.csv">>, <<"out", "/", "checkpoints.csv">>,
                      <<"out", "/", "step_metrics.csv">> >>

\* C16: calc_cost_of_training returns (total tokens / 1000) * epochs * price
\* for the total calc_total_tokens gives with the default overhead (here in
\* millionths, the price in thousandths): 1000 tokens, 2 epochs and 0.008 per
\* thousand cost 0.016; and no call of the utilities changes its dataset.
C16_CostFormula ==
    /\ [](  (pc = "u_done" /\ u_ret.op = "calc_cost_of_training")
            => LET tokens == SumSeq([i \in 1..Len(u_in.dataset) |->
                                        DefaultCount(u_in.dataset[i])])
               IN  /\ tokens = calc_total_tokens(u_in.dataset, DefaultTokensPerMsg)
                   /\ u_ret.value = tokens * u_in.num_epochs * u_in.cost_per_1k
                   /\ (tokens = 1000 /\ u_in.num_epochs = 2 /\ u_in.cost_per_1k = 8)
                         => u_ret.value = 16000)
    /\ [][u_in'.dataset = u_in.dataset]_vars

\* The dataset of 1000 tokens was priced for 2 epochs at 0.008.
C16_Witness ==
    /\ pc = "u_done" /\ u_ret.op = "calc_cost_of_training"
    /\ u_in.dataset = KiloDataset
    /\ u_in.num_epochs = 2 /\ u_in.cost_per_1k = 8
    /\ u_ret.value = 16000

\* ---- json.loads of one line, for the round trip
ParseFail == [ok |-> FALSE, value |-> <<>>, next |-> 0]
Parsed(v, n) == [ok |-> TRUE, value |-> v, next |-> n]

\* The characters of a JSON string from position i, after its opening
\* quote, up to its closing quote; a raw newline ends nothing and is no
\* character of a string.
RECURSIVE ScanString(_, _, _)
ScanString(s, i, acc) ==
    IF i > Len(s) \/ s[i] = NL THEN ParseFail
    ELSE IF s[i] = "\"" THEN Parsed(acc, i + 1)
    ELSE IF s[i] = "\\"
         THEN IF i + 1 > Len(s) THEN ParseFail
              ELSE CASE s[i + 1] = "n" -> ScanString(s, i + 2, Append(acc, NL))
                     [] s[i + 1] = "\"" -> ScanString(s, i + 2, Append(acc, "\""))
                     [] s[i + 1] = "\\" -> ScanString(s, i + 2, Append(acc, "\\"))
                     [] OTHER -> ParseFail
    ELSE ScanString(s, i + 1, Append(acc, s[i]))

ParseString(s, i) ==
    IF i > Len(s) \/ s[i] # "\"" THEN ParseFail ELSE ScanString(s, i + 1, <<>>)

\* s holds the symbols syms from position i.
Expect(s, i, syms) ==
    /\ i + Len(syms) - 1 <= Len(s)
    /\ SubSeq(s, i, i + Len(syms) - 1) = syms

\* {"role": r, "content": c} from position i.
ParseMessage(s, i) ==
    IF ~Expect(s, i, <<"{", "\"", "role", "\"", ":">>) THEN ParseFail
    ELSE LET r == ParseString(s, i + 5)
         IN  IF ~r.ok \/ Len(r.value) # 1
                \/ ~Expect(s, r.next, <<",", "\"", "content", "\"", ":">>)
             THEN ParseFail
             ELSE LET c == ParseString(s, r.next + 5)
                  IN  IF ~c.ok \/ ~Expect(s, c.next, <<"}">>) THEN ParseFail
                      ELSE Parsed([role |-> r.value[1], content |-> c.value], c.next + 1)

\* The messages of a list from position i, up to its closing bracket.
RECURSIVE ParseMessages(_, _, _)
ParseMessages(s, i, acc) ==
    IF Expect(s, i, <<"]">>) THEN Parsed(acc, i + 1)
    ELSE LET from == IF acc = <<>> THEN i ELSE i + 1
             m == ParseMessage(s, from)
         IN  IF (acc # <<>> /\ ~Expect(s, i, <<",">>)) \/ ~m.ok THEN ParseFail
             ELSE ParseMessages(s, m.next, Append(acc, m.value))

\* json.loads(line): the record, or a failure.
JsonLoads(line) ==
    IF ~Expect(line, 1, <<"{", "\"", "messages", "\"", ":", "[">>) THEN ParseFail
    ELSE LET ms == ParseMessages(line, 7, <<>>)
         IN  IF ~ms.ok \/ ~Expect(line, ms.next, <<"}">>) \/ ms.next # Len(line)
             THEN ParseFail
             ELSE Parsed([messages |-> ms.value], ms.next + 1)

\* The positions of the line terminators of a text, and its k-th line.
LineEnds(text) == {p \in 1..Len(text) : text[p] = NL}
LineEnd(text, k) ==
    CHOOSE p \in LineEnds(text) : Cardinality({q \in LineEnds(text) : q <= p}) = k
Line(text, k) ==
    SubSeq(text, IF k = 1 THEN 1 ELSE LineEnd(text, k - 1) + 1, LineEnd(text, k) - 1)

\* C17: the file write_dataset_to_jsonl writes is one newline-terminated
\* line per record, in the order of the dataset, equal lines for equal
\* records; json.loads of line i gives record i back, roles and contents;
\* and write_dataset_to_buffer holds the same text.
C17_SerializationRoundTrip ==
    (pc = "u_done" /\ u_ret.op = "serialize")
    => LET d == u_in.dataset
           text == u_ret.value.jsonl
       IN  /\ Cardinality(LineEnds(text)) = Len(d)
           /\ text = <<>> \/ text[Len(text)] = NL
           /\ \A i \in 1..Len(d) :
                 JsonLoads(Line(text, i)) = Parsed(d[i], Len(Line(text, i)) + 1)
           /\ \A i, j \in 1..Len(d) : d[i] = d[j] => Line(text, i) = Line(text, j)
           /\ u_ret.value.buffer = text

\* Two different records, newlines, quotes and backslashes in their
\* contents, were written on two lines.
C17_Witness ==
    /\ pc = "u_done" /\ u_ret.op = "serialize"
    /\ Len(u_in.dataset) = 2
    /\ u_in.dataset[1].messages[2].content = <<NL, "\\">>
    /\ u_in.dataset[2].messages[3].content = <<"\"">>
    /\ Cardinality(LineEnds(u_ret.value.jsonl)) = 2

\* The remote calls of the two uploads, in the order the run makes them.
UploadCalls ==
    <<[op |-> "files.create", arg |-> FileIds[1]],
      [op |-> "files.wait_for_processing", arg |-> FileIds[1]]>>
    \o (IF cfg.with_val_data
        THEN <<[op |-> "files.create", arg |-> FileIds[2]],
               [op |-> "files.wait_for_processing", arg |-> FileIds[2]]>>
        ELSE <<>>)

\* C18: the remote calls of a run are, in order: create and wait for the
\* training file, with validation create and wait for the validation file,
\* one jobs.create, then only retrievals of that job, then only retrievals
\* of files; the run goes on to the result files only after a poll that
\* returned "succeeded", and it makes no other call.
C18_RemoteCallOrder ==
    LET rc == RemoteCalls(trace)
        n == Len(UploadCalls)
    IN  /\ \A k \in 1..Len(rc) :
              /\ k <= n => rc[k].op = UploadCalls[k].op /\ rc[k].arg = UploadCalls[k].arg
              /\ k = n + 1 => rc[k].op = "jobs.create" /\ rc[k].arg = JobId
              /\ k > n + 1
                    => /\ rc[k].op \in {"jobs.retrieve", "files.retrieve", "files.content"}
                       /\ rc[k].op = "jobs.retrieve"
                             => /\ rc[k].arg = JobId
                                /\ rc[k - 1].op \in {"jobs.create", "jobs.retrieve"}
                       /\ rc[k].op = "files.content"
                             => rc[k - 1].op = "files.retrieve" /\ rc[k - 1].arg = rc[k].arg
        /\ (pc \in {"collect", "fetch_files"} \/ HasEvent("files.retrieve"))
              => /\ polled # <<>> /\ Last(polled) = "succeeded"
                 /\ \A k \in 1..(Len(polled) - 1) : polled[k] \in NonTerminal
                 /\ Fetches = Len(polled)

\* A run with validation made every kind of call: two uploads, the job, two
\* polls and a result file.
C18_Witness ==
    /\ pc = "done" /\ cfg.with_val_data
    /\ [k \in 1..Len(RemoteCalls(trace)) |-> RemoteCalls(trace)[k].op]
         = <<"files.create", "files.wait_for_processing", "files.create",
             "files.wait_for_processing", "jobs.create", "jobs.retrieve",
             "jobs.retrieve", "files.retrieve", "files.content">>

\* C19: the job-create request carries the id of the training file this run
\* uploaded and saw processed; a validation file id exactly when validation
\* is configured, then the id of the validation file this run uploaded and
\* saw processed, and without validation no second file is uploaded; the
\* configured epoch count; and a batch size exactly when the configured one
\* is > 0, then that one.
C19_JobRequest ==
    /\ ~cfg.with_val_data => Len(remote_files) <= 1
    /\ job_request # None
          => LET r == job_request[1]
             IN  /\ r.training_file = remote_files[1].id
                 /\ remote_files[1].status = "processed"
                 /\ remote_files[1].filename = <<args.dataset_name>>
                 /\ EventIndex("files.wait_for_processing", r.training_file)
                       < EventIndex("jobs.create", JobId)
                 /\ (r.validation_file # None) <=> cfg.with_val_data
                 /\ cfg.with_val_data
                       => /\ Len(remote_files) = 2
                          /\ r.validation_file = Some(remote_files[2].id)
                          /\ remote_files[2].status = "processed"
                          /\ remote_files[2].filename = <<"val_", args.dataset_name>>
                          /\ r.validation_file[1] # r.training_file
                 /\ r.hyperparameters.n_epochs = cfg.num_epochs
                 /\ (r.hyperparameters.batch_size # None) <=> (cfg.batch_size > 0)
                 /\ cfg.batch_size > 0
                       => r.hyperparameters.batch_size = Some(cfg.batch_size)

\* A job was asked for with both files, 3 epochs and a batch size of 4.
C19_Witness ==
    /\ job_request
         = Some([training_file |-> "file-1", validation_file |-> Some("file-2"),
                 hyperparameters |-> [n_epochs |-> 3, batch_size |-> Some(4)]])
    /\ cfg.with_val_data /\ cfg.batch_size = 4 /\ cfg.num_epochs = 3

\* C20: once a poll returned "succeeded" and its response was read, the
\* result-file ids, the trained tokens and the model the run uses are that
\* response's, the remote job's as it ended; the run fetched the job no
\* further, and the list it returns has one path per result file of that
\* response.
C20_SucceededResponseUsed ==
    (polled # <<>> /\ Last(polled) = "succeeded" /\ pc \in {"fetch_files", "done"})
    => LET job == remote_job[1]
       IN  /\ job.status = "succeeded"
           /\ ongoing_job = Some(job)
           /\ results_files = job.result_files
           /\ Len(log) >= 2
           /\ log[Len(log) - 1] = <<"Fine Tuned Model is", job.fine_tuned_model>>
           /\ log[Len(log)] = <<"Total cost of training was",
                                job.trained_tokens[1] * cfg.token_cost,
                                job.trained_tokens[1]>>
           /\ Fetches = Len(polled)
           /\ Last(SelectSeq(trace, IsLoopEvent)).op = "jobs.retrieve"
           /\ (pc = "done" /\ ~(ret.raised /\ ret.exc \in {"APIError", "OSError"}))
                 => /\ ~ret.raised
                    /\ Len(ret.value) = Len(job.result_files)
                    /\ \A i \in 1..Len(ret.value) :
                          ret.value[i] = <<RemoteFilename(job.result_files[i])>>

\* The second poll returned "succeeded" with two result files, and their
\* two paths were returned.
C20_Witness ==
    /\ pc = "done" /\ ~ret.raised
    /\ Len(polled) = 2 /\ Last(polled) = "succeeded"
    /\ ongoing_job[1].result_files = <<"file-r2", "file-r1">>
    /\ ret.value = << <<"results.csv">>, <<"step_metrics.csv">> >>

====
